---- MODULE Spec2Model ----
(***************************************************************************)
(* Loan ledger of the tablet borrowing system: the tables of               *)
(* shared/schema.ts and the operations of DatabaseStorage in               *)
(* server/storage.ts (createStudent, deleteStudent, createTablet,          *)
(* bulkCreateTablets, updateTablet, deleteTablet, getAvailableTablets,     *)
(* getTabletHistory, createBorrowRecord, processReturn, createLostReport). *)
(*                                                                         *)
(* Spec     : every storage call runs to completion before the next one    *)
(*            starts (one action per call).                                *)
(* SpecConc : two clients run createBorrowRecord with the statements of    *)
(*            their transactions interleaved, under the store's default    *)
(*            READ COMMITTED isolation.                                    *)
(* SpecEdit : two clients run updateTablet, which opens no transaction,    *)
(*            with their statements interleaved.                           *)
(* SpecClose: two clients run processReturn and createLostReport with the  *)
(*            statements of their transactions interleaved, under the row  *)
(*            locks of the store.                                          *)
(* SpecDelete: deleteTablet and deleteStudent, which open no transaction,  *)
(*            interleaved with the statements of createTablet and          *)
(*            createBorrowRecord, under the foreign keys of the schema.    *)
(***************************************************************************)
EXTENDS Integers, Sequences, FiniteSets, TLC

\* ---------------------------------------------------------------- bounds
MaxTablets == 2
MaxStudents == 1
MaxBorrowRecords == 2
MaxLostReports == 2
MaxHistory == 4
MaxDate == 2

\* ------------------------------------------------------------ value sets
tabletStatusEnum == {"Serviceable", "Unserviceable", "Lost"}
tabletConditionEnum == {"New / Excellent", "Good", "Fair", "Poor", "Defective"}

\* The conditions the requests carry: two values of tabletConditionEnum.
Conditions == {c \in tabletConditionEnum : c \in {"Good", "Fair"}}

\* SQL NULL, for text/enum columns and for integer/timestamp columns.
NULL == "NULL"
NULLID == 0
NULLDATE == 0

\* JavaScript's undefined, for an optional field the caller left out.
UNDEFINED == "undefined"

\* Time value of an Invalid Date (NaN).
InvalidTime == -1

Dates == 1..MaxDate
TabletIds == 1..MaxTablets
BorrowRecordIds == 1..MaxBorrowRecords

\* The student ids a request may name: those that can exist, and one that
\* never does.
RequestStudentIds == 1..(MaxStudents + 1)

\* returnDate as z.date().or(z.string()) admits it: a Date, or any string.
DateStrings == {"2024-01-10", "soon"}
ReturnDateInputs ==
    [isDate : {TRUE}, time : {MaxDate}, text : {""}]
        \cup [isDate : {FALSE}, time : {NULLDATE}, text : DateStrings]

\* new Date(string): the time value the string parses to, NaN when it does not.
ParseDate(s) ==
    CASE s = "2024-01-10" -> 1
      [] s = "2024-02-01" -> 2
      [] OTHER -> InvalidTime

\* returnData.returnDate instanceof Date ? returnData.returnDate : new Date(returnData.returnDate)
ToDate(d) == IF d.isDate THEN d.time ELSE ParseDate(d.text)

\* accessories as the json column admits it: an object, a string holding
\* JSON, or a string that is not JSON.
AccessoriesInputs == {"object", "json string", "bad string"}

\* The accessories pre-processing of createBorrowRecord: TRUE when it throws.
AccessoriesThrows(a) == a = "bad string"

ReturnNotesInputs == {UNDEFINED, "minor scratch"}

UpdateBorrowRecordForReturn ==
    [isReturned : BOOLEAN, returnDate : ReturnDateInputs,
     returnCondition : Conditions, returnNotes : ReturnNotesInputs]

\* ------------------------------------------------------------- outcomes
\* A call returns (Ok) or throws an Error with a message; `detail` is the
\* value the message interpolates at its end.
Ok == [ok |-> TRUE, error |-> "", detail |-> ""]
Err(message, detail) == [ok |-> FALSE, error |-> message, detail |-> detail]

\* The record kept of the call that completed last: the operation, the row
\* it names or creates (the borrow record, for the ledger operations), and
\* its outcome.
Last(op, id, out) == [op |-> op, id |-> id, out |-> out]

\* ----------------------------------------------------------------- state
VARIABLES
    tablets,        \* tablets table: id -> [status, condition]
    students,       \* students table: the set of ids
    borrowRecords,  \* borrow_records table: id -> row
    lostReports,    \* lost_reports table, in id order
    tabletHistory,  \* tablet_history table, in id order
    serial,         \* last value of the serial sequences of tablets/students/borrow_records
    now,            \* the clock read by new Date()
    last,           \* the storage call that completed last, with its outcome
    tx              \* per client, the call in flight (SpecConc, SpecEdit)

vars == <<tablets, students, borrowRecords, lostReports, tabletHistory, serial, now, last, tx>>

Clients == {1, 2}
\* The connections of the pool: the two clients and one more caller, which
\* only SpecDelete sets to work.
Sessions == Clients \cup {3}
IdleTx == [pc |-> "idle", tabletId |-> NULLID, studentId |-> NULLID,
           condition |-> NULL, dateBorrowed |-> NULLDATE, id |-> NULLID]

Init ==
    /\ tablets = <<>>
    /\ students = {}
    /\ borrowRecords = <<>>
    /\ lostReports = <<>>
    /\ tabletHistory = <<>>
    /\ serial = [tablets |-> 0, students |-> 0, borrowRecords |-> 0]
    /\ now = 1
    /\ last = Last("none", NULLID, Ok)
    /\ tx = [c \in Sessions |-> IdleTx]

\* ------------------------------------------------------------- row makers
HistoryRow(tabletId, studentId, borrowRecordId, eventType, date, condition) ==
    [tabletId |-> tabletId, studentId |-> studentId, borrowRecordId |-> borrowRecordId,
     eventType |-> eventType, date |-> date, condition |-> condition]

\* A function extended by one key.
Put(f, k, v) == [x \in DOMAIN f \cup {k} |-> IF x = k THEN v ELSE f[x]]

\* ------------------------------------------------------------ createStudent
createStudent ==
    /\ serial.students < MaxStudents
    /\ LET id == serial.students + 1 IN
        /\ students' = students \cup {id}
        /\ serial' = [serial EXCEPT !.students = id]
        /\ last' = Last("createStudent", id, Ok)
    /\ UNCHANGED <<tablets, borrowRecords, lostReports, tabletHistory, now, tx>>

\* ------------------------------------------------------------- createTablet
CreatedEvent(id, date, condition) ==
    HistoryRow(id, NULLID, NULLID, "created", date, condition)

\* status is any value of the enum; condition is left to its column default.
InsertTablet == [status : tabletStatusEnum, condition : {"Good"}]

createTablet(status, condition) ==
    /\ serial.tablets < MaxTablets
    /\ Len(tabletHistory) < MaxHistory
    /\ \E t \in now..MaxDate :
        LET id == serial.tablets + 1 IN
        /\ tablets' = Put(tablets, id, [status |-> status, condition |-> condition])
        /\ serial' = [serial EXCEPT !.tablets = id]
        /\ tabletHistory' = Append(tabletHistory, CreatedEvent(id, t, condition))
        /\ now' = t
        /\ last' = Last("createTablet", id, Ok)
    /\ UNCHANGED <<students, borrowRecords, lostReports, tx>>

\* -------------------------------------------------------- bulkCreateTablets
MaxBulk == 2

\* The lists an import carries: up to MaxBulk tablets, with serial numbers
\* that are neither in the table nor repeated in the list, so that the
\* duplicate filter keeps them all.
InsertTabletLists ==
    {<<>>} \cup UNION {[1..n -> InsertTablet] : n \in 1..MaxBulk}

\* historyEntries: one 'created' row per tablet inserted, in id order.
BulkCreatedEvents(firstId, tabletsList, date) ==
    [i \in 1..Len(tabletsList) |->
        CreatedEvent(firstId + i - 1, date, tabletsList[i].condition)]

bulkCreateTablets(tabletsList) ==
    /\ IF Len(tabletsList) = 0
       THEN UNCHANGED <<tablets, serial, tabletHistory, now>>
       ELSE /\ serial.tablets + Len(tabletsList) <= MaxTablets
            /\ Len(tabletHistory) + Len(tabletsList) <= MaxHistory
            /\ \E t \in now..MaxDate :
                 LET firstId == serial.tablets + 1 IN
                 /\ tablets' = [id \in DOMAIN tablets \cup
                                       (firstId..(serial.tablets + Len(tabletsList))) |->
                                   IF id \in DOMAIN tablets THEN tablets[id]
                                   ELSE [status |-> tabletsList[id - serial.tablets].status,
                                         condition |-> tabletsList[id - serial.tablets].condition]]
                 /\ serial' = [serial EXCEPT !.tablets = @ + Len(tabletsList)]
                 /\ tabletHistory' = tabletHistory \o BulkCreatedEvents(firstId, tabletsList, t)
                 /\ now' = t
    /\ last' = Last("bulkCreateTablets", serial.tablets + Len(tabletsList), Ok)
    /\ UNCHANGED <<students, borrowRecords, lostReports, tx>>

\* ------------------------------------------------------- createBorrowRecord
InsertBorrowRecord ==
    [tabletId : TabletIds, studentId : RequestStudentIds, condition : {"Good"},
     dateBorrowed : Dates, accessories : AccessoriesInputs]

\* select from students where students.id = borrowRecord.studentId
StudentFound(studentId) == studentId \in students

\* select from borrow_records where tabletId = ... and isReturned = false
ActiveRecordsNone(rows, tabletId) == {}
ActiveRecords(rows, tabletId) ==
    {id \in DOMAIN rows : rows[id].tabletId = tabletId /\ rows[id].isReturned = FALSE}

\* select from borrow_records where isReturned = false
ActiveRecordIds(rows) == {id \in DOMAIN rows : rows[id].isReturned = FALSE}

\* select from tablets where tablets.id = borrowRecord.tabletId
TabletFound(tabletId) == tabletId \in DOMAIN tablets

\* The row insert(borrowRecords).values(borrowData) writes: the return
\* columns take their column defaults.
NewBorrowRecordReturned(req) ==
    [tabletId |-> req.tabletId, studentId |-> req.studentId,
     condition |-> req.condition, dateBorrowed |-> req.dateBorrowed,
     isReturned |-> TRUE, returnDate |-> NULLDATE,
     returnCondition |-> NULL, returnNotes |-> NULL]
NewBorrowRecord(req) ==
    [tabletId |-> req.tabletId, studentId |-> req.studentId,
     condition |-> req.condition, dateBorrowed |-> req.dateBorrowed,
     isReturned |-> FALSE, returnDate |-> NULLDATE,
     returnCondition |-> NULL, returnNotes |-> NULL]

BorrowedEvent(req, id) ==
    HistoryRow(req.tabletId, req.studentId, id, "borrowed", req.dateBorrowed, req.condition)

\* The checks of createBorrowRecord in the order the code makes them; the
\* first that fails throws.
TabletCheck(req) ==
    IF ~TabletFound(req.tabletId)
    THEN Err("Tablet not found", "")
    ELSE IF tablets[req.tabletId].status # "Serviceable"
    THEN Err("Tablet is not serviceable: ", tablets[req.tabletId].status)
    ELSE Ok

ActiveRecordCheck(req) ==
    IF ActiveRecords(borrowRecords, req.tabletId) # {}
    THEN Err("Tablet is already borrowed", "")
    ELSE Ok

PreTransactionCheck(req) ==
    IF ~StudentFound(req.studentId)
    THEN Err("Student not found", "")
    ELSE IF AccessoriesThrows(req.accessories)
    THEN Err("Invalid accessories format", "")
    ELSE Ok

CreateBorrowRecordOutcome(req) ==
    IF ~PreTransactionCheck(req).ok THEN PreTransactionCheck(req)
    ELSE IF ~ActiveRecordCheck(req).ok THEN ActiveRecordCheck(req)
    ELSE TabletCheck(req)

createBorrowRecord(req) ==
    LET out == CreateBorrowRecordOutcome(req)
        id == serial.borrowRecords + 1
    IN  /\ IF out.ok
           THEN /\ id <= MaxBorrowRecords
                /\ Len(tabletHistory) < MaxHistory
                /\ borrowRecords' = Put(borrowRecords, id, NewBorrowRecord(req))
                /\ serial' = [serial EXCEPT !.borrowRecords = id]
                /\ tabletHistory' = Append(tabletHistory, BorrowedEvent(req, id))
           ELSE UNCHANGED <<borrowRecords, serial, tabletHistory>>
        /\ last' = Last("createBorrowRecord", IF out.ok THEN id ELSE NULLID, out)
        /\ UNCHANGED <<tablets, students, lostReports, now, tx>>

\* ------------------------------------------------------------ processReturn
AlreadyReturned(row) == row.isReturned

\* update(borrowRecords).set({...}): a field that is undefined is left out
\* of the SET list.
ReturnUpdate(row, returnData) ==
    [row EXCEPT !.isReturned = returnData.isReturned,
                !.returnDate = ToDate(returnData.returnDate),
                !.returnCondition = returnData.returnCondition,
                !.returnNotes = IF returnData.returnNotes = UNDEFINED
                                THEN @ ELSE returnData.returnNotes]

ReturnedEvent(row, id, returnData) ==
    HistoryRow(row.tabletId, row.studentId, id, "returned",
               ToDate(returnData.returnDate), returnData.returnCondition)

\* update(tablets).set({condition: returnData.returnCondition})
\*     .where(eq(tablets.id, borrowRecord.tabletId))
SetConditionEverywhere(rows, tabletId, condition) ==
    [t \in DOMAIN rows |-> [rows[t] EXCEPT !.condition = condition]]
SetCondition(rows, tabletId, condition) ==
    [t \in DOMAIN rows |->
        IF t = tabletId THEN [rows[t] EXCEPT !.condition = condition] ELSE rows[t]]

ProcessReturnOutcome(id, returnData) ==
    IF id \notin DOMAIN borrowRecords
    THEN Err("Borrow record not found", "")
    ELSE IF AlreadyReturned(borrowRecords[id])
    THEN Err("Tablet has already been returned", "")
    ELSE IF ~StudentFound(borrowRecords[id].studentId)
    THEN Err("Student not found", "")
    ELSE IF ToDate(returnData.returnDate) = InvalidTime
    THEN Err("Invalid time value", "")
    ELSE Ok

processReturn(id, returnData) ==
    LET out == ProcessReturnOutcome(id, returnData) IN
    /\ IF out.ok
       THEN LET row == borrowRecords[id] IN
            /\ Len(tabletHistory) < MaxHistory
            /\ borrowRecords' = [borrowRecords EXCEPT ![id] = ReturnUpdate(row, returnData)]
            /\ tablets' = SetCondition(tablets, row.tabletId, returnData.returnCondition)
            /\ tabletHistory' = Append(tabletHistory, ReturnedEvent(row, id, returnData))
       ELSE UNCHANGED <<borrowRecords, tablets, tabletHistory>>
    /\ last' = Last("processReturn", id, out)
    /\ UNCHANGED <<students, lostReports, serial, now, tx>>

\* POST /api/borrow-records/:id/return, after the body has been validated:
\* the response the handler sends for the outcome of storage.processReturn.
\* A call that throws goes to the catch block; 404 is sent only when the
\* call returns undefined.
PostReturnResponse(out) ==
    IF out.ok
    THEN [status |-> 200, message |-> "", error |-> ""]
    ELSE IF out.error = "undefined"
    THEN [status |-> 404, message |-> "Borrow record not found", error |-> ""]
    ELSE [status |-> 500, message |-> "Failed to process return", error |-> out.error]

\* --------------------------------------------------------- createLostReport
InsertLostReport ==
    [tabletId : TabletIds, studentId : RequestStudentIds,
     borrowRecordId : {NULLID} \cup BorrowRecordIds, dateReported : Dates]

\* update(tablets).set({status: 'Lost'}).where(eq(tablets.id, lostReport.tabletId))
MarkLostDefective(rows, tabletId) ==
    [t \in DOMAIN rows |->
        IF t = tabletId THEN [status |-> "Lost", condition |-> "Defective"] ELSE rows[t]]
MarkLost(rows, tabletId) ==
    [t \in DOMAIN rows |->
        IF t = tabletId THEN [rows[t] EXCEPT !.status = "Lost"] ELSE rows[t]]

\* if (borrowRecord && !borrowRecord.isReturned)
ClosableAlways(rows, borrowRecordId) == borrowRecordId \in DOMAIN rows
Closable(rows, borrowRecordId) ==
    /\ borrowRecordId \in DOMAIN rows
    /\ ~rows[borrowRecordId].isReturned

\* update(borrowRecords).set({isReturned: true, returnDate, returnNotes})
LostUpdate(row, lostReport) ==
    [row EXCEPT !.isReturned = TRUE,
                !.returnDate = lostReport.dateReported,
                !.returnNotes = "Tablet reported as lost"]

\* if (lostReport.borrowRecordId) { ... }
CloseForLossSearching(rows, lostReport) ==
    [id \in DOMAIN rows |->
        IF /\ ~rows[id].isReturned
           /\ \/ id = lostReport.borrowRecordId
              \/ lostReport.borrowRecordId = NULLID /\ rows[id].tabletId = lostReport.tabletId
        THEN LostUpdate(rows[id], lostReport)
        ELSE rows[id]]
CloseForLoss(rows, lostReport) ==
    IF lostReport.borrowRecordId # NULLID /\ Closable(rows, lostReport.borrowRecordId)
    THEN [rows EXCEPT ![lostReport.borrowRecordId] = LostUpdate(@, lostReport)]
    ELSE rows

NewLostReport(lostReport) ==
    [tabletId |-> lostReport.tabletId, studentId |-> lostReport.studentId,
     borrowRecordId |-> lostReport.borrowRecordId,
     dateReported |-> lostReport.dateReported]

LostEvent(lostReport) ==
    HistoryRow(lostReport.tabletId, lostReport.studentId, lostReport.borrowRecordId,
               "lost", lostReport.dateReported, NULL)

\* The foreign keys of lost_reports: the insert fails, and the transaction
\* rolls back, when a referenced row is missing.
LostReportOutcomeOnce(lostReport) ==
    IF \/ ~TabletFound(lostReport.tabletId)
       \/ ~StudentFound(lostReport.studentId)
       \/ /\ lostReport.borrowRecordId # NULLID
          /\ lostReport.borrowRecordId \notin DOMAIN borrowRecords
    THEN Err("violates foreign key constraint", "")
    ELSE IF tablets[lostReport.tabletId].status = "Lost"
    THEN Err("Tablet is already lost", "")
    ELSE Ok
LostReportOutcome(lostReport) ==
    IF \/ ~TabletFound(lostReport.tabletId)
       \/ ~StudentFound(lostReport.studentId)
       \/ /\ lostReport.borrowRecordId # NULLID
          /\ lostReport.borrowRecordId \notin DOMAIN borrowRecords
    THEN Err("violates foreign key constraint", "")
    ELSE Ok

createLostReportPartial(lostReport) ==
    LET out == LostReportOutcome(lostReport) IN
    /\ IF out.ok
       THEN /\ Len(lostReports) < MaxLostReports
            /\ Len(tabletHistory) < MaxHistory
            /\ tablets' = MarkLost(tablets, lostReport.tabletId)
            /\ borrowRecords' = CloseForLoss(borrowRecords, lostReport)
            /\ lostReports' = Append(lostReports, NewLostReport(lostReport))
            /\ tabletHistory' = Append(tabletHistory, LostEvent(lostReport))
       ELSE /\ tablets' = MarkLost(tablets, lostReport.tabletId)
            /\ borrowRecords' = CloseForLoss(borrowRecords, lostReport)
            /\ UNCHANGED <<lostReports, tabletHistory>>
    /\ last' = Last("createLostReport", lostReport.borrowRecordId, out)
    /\ UNCHANGED <<students, serial, now, tx>>
createLostReport(lostReport) ==
    LET out == LostReportOutcome(lostReport) IN
    /\ IF out.ok
       THEN /\ Len(lostReports) < MaxLostReports
            /\ Len(tabletHistory) < MaxHistory
            /\ tablets' = MarkLost(tablets, lostReport.tabletId)
            /\ borrowRecords' = CloseForLoss(borrowRecords, lostReport)
            /\ lostReports' = Append(lostReports, NewLostReport(lostReport))
            /\ tabletHistory' = Append(tabletHistory, LostEvent(lostReport))
       ELSE UNCHANGED <<tablets, borrowRecords, lostReports, tabletHistory>>
    /\ last' = Last("createLostReport", lostReport.borrowRecordId, out)
    /\ UNCHANGED <<students, serial, now, tx>>

\* ------------------------------------------------------------- updateTablet
TabletPatch ==
    [status : tabletStatusEnum \cup {UNDEFINED}, condition : Conditions \cup {UNDEFINED}]

\* update(tablets).set({ ...tablet }): an undefined field is left as it is.
PatchTablet(row, patch) ==
    [status |-> IF patch.status = UNDEFINED THEN row.status ELSE patch.status,
     condition |-> IF patch.condition = UNDEFINED THEN row.condition ELSE patch.condition]

\* if (tablet.status && tablet.status !== oldTablet.status)
StatusChangedAlways(old, patch) == patch.status # UNDEFINED
StatusChanged(old, patch) == patch.status # UNDEFINED /\ patch.status # old.status

\* if (tablet.condition && tablet.condition !== oldTablet.condition)
ConditionChanged(old, patch) == patch.condition # UNDEFINED /\ patch.condition # old.condition

ChangeEvents(id, old, patch, t1, t2) ==
    LET new == PatchTablet(old, patch) IN
    (IF StatusChanged(old, patch)
     THEN <<HistoryRow(id, NULLID, NULLID, "status_change", t1, new.condition)>>
     ELSE <<>>)
    \o
    (IF ConditionChanged(old, patch)
     THEN <<HistoryRow(id, NULLID, NULLID, "condition_change", t2, new.condition)>>
     ELSE <<>>)

updateTablet(id, patch) ==
    /\ IF TabletFound(id)
       THEN \E t1 \in now..MaxDate : \E t2 \in t1..MaxDate :
            LET events == ChangeEvents(id, tablets[id], patch, t1, t2) IN
            /\ Len(tabletHistory) + Len(events) <= MaxHistory
            /\ tablets' = [tablets EXCEPT ![id] = PatchTablet(@, patch)]
            /\ tabletHistory' = tabletHistory \o events
            /\ now' = IF events = <<>> THEN now ELSE events[Len(events)].date
       ELSE UNCHANGED <<tablets, tabletHistory, now>>
    /\ last' = Last("updateTablet", id,
                     IF TabletFound(id) THEN Ok ELSE Err("undefined", ""))
    /\ UNCHANGED <<students, borrowRecords, lostReports, serial, tx>>

\* ------------------------------------------------------------- deleteTablet
\* select count(*) from borrow_records where tabletId = id
HasBorrowingsOpen(id) ==
    \E b \in DOMAIN borrowRecords :
        borrowRecords[b].tabletId = id /\ ~borrowRecords[b].isReturned
HasBorrowings(id) == \E b \in DOMAIN borrowRecords : borrowRecords[b].tabletId = id

\* The foreign keys on tablets.id of tablet_history and lost_reports (no ON
\* DELETE action): a referenced tablet cannot be deleted.
TabletReferenced(id) ==
    \/ \E i \in 1..Len(tabletHistory) : tabletHistory[i].tabletId = id
    \/ \E i \in 1..Len(lostReports) : lostReports[i].tabletId = id

\* `return false` is reported with the message the route gives it; a delete
\* that matches no row succeeds.
DeleteTabletOutcome(id) ==
    IF HasBorrowings(id)
    THEN Err("Cannot delete tablet with borrowing records", "")
    ELSE IF TabletReferenced(id)
    THEN Err("violates foreign key constraint", "")
    ELSE Ok

deleteTabletCascade(id) ==
    LET out == DeleteTabletOutcome(id) IN
    /\ IF out.ok \/ ~HasBorrowings(id)
       THEN /\ tablets' = [t \in DOMAIN tablets \ {id} |-> tablets[t]]
            /\ tabletHistory' = SelectSeq(tabletHistory, LAMBDA e : e.tabletId # id)
       ELSE UNCHANGED <<tablets, tabletHistory>>
    /\ last' = Last("deleteTablet", id, out)
    /\ UNCHANGED <<students, borrowRecords, lostReports, serial, now, tx>>
deleteTablet(id) ==
    LET out == DeleteTabletOutcome(id) IN
    /\ IF out.ok
       THEN tablets' = [t \in DOMAIN tablets \ {id} |-> tablets[t]]
       ELSE UNCHANGED tablets
    /\ last' = Last("deleteTablet", id, out)
    /\ UNCHANGED <<students, borrowRecords, lostReports, tabletHistory, serial, now, tx>>

\* ------------------------------------------------------ getAvailableTablets
\* borrowedIds: the tabletId of every borrow record with isReturned = false.
BorrowedIdsEver == {borrowRecords[id].tabletId : id \in DOMAIN borrowRecords}
BorrowedIds == {borrowRecords[id].tabletId : id \in ActiveRecordIds(borrowRecords)}

\* The tablets the query returns: Serviceable and, when borrowedIds is not
\* empty, not in borrowedIds.
getAvailableTablets ==
    IF BorrowedIds # {}
    THEN {t \in DOMAIN tablets : tablets[t].status = "Serviceable" /\ t \notin BorrowedIds}
    ELSE {t \in DOMAIN tablets : tablets[t].status = "Serviceable"}

\* --------------------------------------------------------- getTabletHistory
\* where(eq(tabletHistory.tabletId, tabletId)): the ids (positions) of the rows.
HistoryIdsOf(tabletId) ==
    {i \in 1..Len(tabletHistory) : tabletHistory[i].tabletId = tabletId}

\* orderBy(desc(tabletHistory.date)): the results the query can return, as
\* sequences of row ids. Rows with the same date come in any order.
getTabletHistory(tabletId) ==
    LET ids == HistoryIdsOf(tabletId)
        n == Cardinality(ids)
    IN  {r \in [1..n -> ids] :
            /\ \A i, j \in 1..n : i # j => r[i] # r[j]
            /\ \A i, j \in 1..n :
                 i < j => tabletHistory[r[i]].date >= tabletHistory[r[j]].date}

\* ------------------------------------------------------------------ Spec
Next ==
    \/ createStudent
    \/ \E tablet \in InsertTablet : createTablet(tablet.status, tablet.condition)
    \/ \E tabletsList \in InsertTabletLists : bulkCreateTablets(tabletsList)
    \/ \E id \in TabletIds, patch \in TabletPatch : updateTablet(id, patch)
    \/ \E id \in TabletIds : deleteTablet(id)
    \/ \E req \in InsertBorrowRecord : createBorrowRecord(req)
    \/ \E id \in BorrowRecordIds, returnData \in UpdateBorrowRecordForReturn :
          processReturn(id, returnData)
    \/ \E lostReport \in InsertLostReport : createLostReport(lostReport)

Spec == Init /\ [][Next]_vars

\* ---------------------------------------------------------------- SpecConc
\* createBorrowRecord statement by statement, for two clients at once. The
\* store runs each transaction READ COMMITTED (db.transaction is given no
\* isolation level and borrow_records has no uniqueness constraint on open
\* records): a select sees the rows committed so far, and the rows a
\* transaction inserts are seen by the others once it commits.

\* The student select and the accessories parsing, before the transaction.
cbrBegin(c, req) ==
    /\ tx[c].pc = "idle"
    /\ IF PreTransactionCheck(req).ok
       THEN /\ tx' = [tx EXCEPT ![c] = [pc |-> "selectActive", tabletId |-> req.tabletId,
                                        studentId |-> req.studentId,
                                        condition |-> req.condition,
                                        dateBorrowed |-> req.dateBorrowed, id |-> NULLID]]
            /\ UNCHANGED last
       ELSE /\ last' = Last("createBorrowRecord", NULLID, PreTransactionCheck(req))
            /\ UNCHANGED tx
    /\ UNCHANGED <<tablets, students, borrowRecords, lostReports, tabletHistory, serial, now>>

\* tx.select().from(borrowRecords).where(tabletId = ... and isReturned = false)
cbrSelectActive(c) ==
    /\ tx[c].pc = "selectActive"
    /\ IF ActiveRecordCheck(tx[c]).ok
       THEN /\ tx' = [tx EXCEPT ![c].pc = "selectTablet"]
            /\ UNCHANGED last
       ELSE /\ tx' = [tx EXCEPT ![c] = IdleTx]
            /\ last' = Last("createBorrowRecord", NULLID, ActiveRecordCheck(tx[c]))
    /\ UNCHANGED <<tablets, students, borrowRecords, lostReports, tabletHistory, serial, now>>

\* tx.select().from(tablets).where(eq(tablets.id, borrowRecord.tabletId))
cbrSelectTablet(c) ==
    /\ tx[c].pc = "selectTablet"
    /\ IF TabletCheck(tx[c]).ok
       THEN /\ tx' = [tx EXCEPT ![c].pc = "insertRecord"]
            /\ UNCHANGED last
       ELSE /\ tx' = [tx EXCEPT ![c] = IdleTx]
            /\ last' = Last("createBorrowRecord", NULLID, TabletCheck(tx[c]))
    /\ UNCHANGED <<tablets, students, borrowRecords, lostReports, tabletHistory, serial, now>>

\* tx.insert(borrowRecords).values(borrowData).returning(): the id comes from
\* the serial sequence at once, the row stays private until the commit.
\* The foreign keys of borrow_records are checked against the rows committed
\* at that moment: a missing tablet or student fails the insert and rolls the
\* transaction back; otherwise both rows stay key-share locked until the
\* transaction ends.
cbrInsertRecord(c) ==
    /\ tx[c].pc = "insertRecord"
    /\ serial.borrowRecords < MaxBorrowRecords
    /\ serial' = [serial EXCEPT !.borrowRecords = @ + 1]
    /\ IF TabletFound(tx[c].tabletId) /\ StudentFound(tx[c].studentId)
       THEN /\ tx' = [tx EXCEPT ![c].pc = "insertHistory",
                                ![c].id = serial.borrowRecords + 1]
            /\ UNCHANGED last
       ELSE /\ tx' = [tx EXCEPT ![c] = IdleTx]
            /\ last' = Last("createBorrowRecord", NULLID,
                            Err("violates foreign key constraint", ""))
    /\ UNCHANGED <<tablets, students, borrowRecords, lostReports, tabletHistory, now>>

\* tx.insert(tabletHistory).values({... eventType: 'borrowed' ...})
cbrInsertHistory(c) ==
    /\ tx[c].pc = "insertHistory"
    /\ tx' = [tx EXCEPT ![c].pc = "commit"]
    /\ UNCHANGED <<tablets, students, borrowRecords, lostReports, tabletHistory, serial, now, last>>

\* The callback returns and the transaction commits: both rows become
\* visible.
cbrCommit(c) ==
    /\ tx[c].pc = "commit"
    /\ Len(tabletHistory) < MaxHistory
    /\ borrowRecords' = Put(borrowRecords, tx[c].id, NewBorrowRecord(tx[c]))
    /\ tabletHistory' = Append(tabletHistory, BorrowedEvent(tx[c], tx[c].id))
    /\ last' = Last("createBorrowRecord", tx[c].id, Ok)
    /\ tx' = [tx EXCEPT ![c] = IdleTx]
    /\ UNCHANGED <<tablets, students, lostReports, serial, now>>

NextConc ==
    \/ createStudent
    \/ \E tablet \in InsertTablet : createTablet(tablet.status, tablet.condition)
    \/ \E c \in Clients, req \in InsertBorrowRecord : cbrBegin(c, req)
    \/ \E c \in Clients : cbrSelectActive(c)
    \/ \E c \in Clients : cbrSelectTablet(c)
    \/ \E c \in Clients : cbrInsertRecord(c)
    \/ \E c \in Clients : cbrInsertHistory(c)
    \/ \E c \in Clients : cbrCommit(c)

SpecConc == Init /\ [][NextConc]_vars

\* ---------------------------------------------------------------- SpecEdit
\* updateTablet statement by statement, for two clients at once. The code
\* opens no transaction (it uses db, not tx): each statement commits by
\* itself, and a statement that throws leaves the earlier ones in place.

\* The edits the two clients send: each sets the status to Unserviceable,
\* the condition to Fair, or both.
EditPatches ==
    {patch \in TabletPatch : /\ patch.status \in {UNDEFINED, "Unserviceable"}
                              /\ patch.condition \in {UNDEFINED, "Fair"}
                              /\ (patch.status # UNDEFINED \/ patch.condition # UNDEFINED)}

\* Both clients edit the same tablet, the first.
EditTabletIds == {id \in TabletIds : id = 1}

\* select().from(tablets).where(eq(tablets.id, id)); if (!oldTablet) return undefined
utSelect(c, id, patch) ==
    /\ tx[c].pc = "idle"
    /\ IF TabletFound(id)
       THEN /\ tx' = [tx EXCEPT ![c] = [pc |-> "update", id |-> id, patch |-> patch,
                                        old |-> tablets[id], updated |-> tablets[id]]]
            /\ UNCHANGED last
       ELSE /\ last' = Last("updateTablet", id, Err("undefined", ""))
            /\ UNCHANGED tx
    /\ UNCHANGED <<tablets, students, borrowRecords, lostReports, tabletHistory, serial, now>>

\* update(tablets).set({ ...tablet }).where(eq(tablets.id, id)).returning()
utUpdate(c) ==
    /\ tx[c].pc = "update"
    /\ tablets' = [tablets EXCEPT ![tx[c].id] = PatchTablet(@, tx[c].patch)]
    /\ tx' = [tx EXCEPT ![c].pc = "insertStatus", ![c].updated = tablets'[tx[c].id]]
    /\ UNCHANGED <<students, borrowRecords, lostReports, tabletHistory, serial, now, last>>

\* if (tablet.status && tablet.status !== oldTablet.status) insert 'status_change'
utInsertStatus(c) ==
    /\ tx[c].pc = "insertStatus"
    /\ IF StatusChanged(tx[c].old, tx[c].patch)
       THEN /\ Len(tabletHistory) < MaxHistory
            /\ \E t \in now..MaxDate :
                 /\ tabletHistory' = Append(tabletHistory,
                        HistoryRow(tx[c].id, NULLID, NULLID, "status_change", t,
                                   tx[c].updated.condition))
                 /\ now' = t
       ELSE UNCHANGED <<tabletHistory, now>>
    /\ tx' = [tx EXCEPT ![c].pc = "insertCondition"]
    /\ UNCHANGED <<tablets, students, borrowRecords, lostReports, serial, last>>

\* if (tablet.condition && tablet.condition !== oldTablet.condition) insert
\* 'condition_change'; return updatedTablet
utInsertCondition(c) ==
    /\ tx[c].pc = "insertCondition"
    /\ IF ConditionChanged(tx[c].old, tx[c].patch)
       THEN /\ Len(tabletHistory) < MaxHistory
            /\ \E t \in now..MaxDate :
                 /\ tabletHistory' = Append(tabletHistory,
                        HistoryRow(tx[c].id, NULLID, NULLID, "condition_change", t,
                                   tx[c].updated.condition))
                 /\ now' = t
       ELSE UNCHANGED <<tabletHistory, now>>
    /\ last' = Last("updateTablet", tx[c].id, Ok)
    /\ tx' = [tx EXCEPT ![c] = IdleTx]
    /\ UNCHANGED <<tablets, students, borrowRecords, lostReports, serial>>

\* A history insert throws (the store is unreachable, the process stops):
\* the call ends there, with the update already committed.
utThrow(c) ==
    /\ tx[c].pc \in {"insertStatus", "insertCondition"}
    /\ last' = Last("updateTablet", tx[c].id, Err("Failed to update tablet", ""))
    /\ tx' = [tx EXCEPT ![c] = IdleTx]
    /\ UNCHANGED <<tablets, students, borrowRecords, lostReports, tabletHistory, serial, now>>

NextEdit ==
    \/ \E tablet \in InsertTablet : createTablet(tablet.status, tablet.condition)
    \/ \E c \in Clients, id \in EditTabletIds, patch \in EditPatches : utSelect(c, id, patch)
    \/ \E c \in Clients : utUpdate(c)
    \/ \E c \in Clients : utInsertStatus(c)
    \/ \E c \in Clients : utInsertCondition(c)
    \/ \E c \in Clients : utThrow(c)

SpecEdit == Init /\ [][NextEdit]_vars

\* --------------------------------------------------------------- SpecClose
\* processReturn and createLostReport statement by statement, for two
\* clients at once, each call in its own READ COMMITTED transaction: a
\* select sees the rows committed so far; an update locks its row until the
\* transaction ends, waits while another transaction holds that lock, and
\* then applies to the row as committed by then; the writes become visible
\* at the commit.

\* The loans are made by requests with well-formed accessories and the
\* first borrowing date.
WellFormedRequests ==
    {req \in InsertBorrowRecord :
        req.accessories = "object" /\ req.dateBorrowed = 1}

\* The return payloads and loss reports the two clients send.
CloseReturnData ==
    {returnData \in UpdateBorrowRecordForReturn :
        returnData.isReturned /\ returnData.returnNotes = UNDEFINED}
CloseLostReports == {lostReport \in InsertLostReport : lostReport.dateReported = 1}

\* The row locks client c holds.
HoldsRecord(c, id) ==
    \/ /\ tx[c].pc \in {"prUpdateTablet", "prCommit"}
       /\ tx[c].id = id
    \/ /\ tx[c].pc = "clCommit"
       /\ tx[c].closing
       /\ tx[c].lostReport.borrowRecordId = id
HoldsTablet(c, tabletId) ==
    \/ /\ tx[c].pc = "prCommit"
       /\ tx[c].row.tabletId = tabletId
    \/ /\ tx[c].pc \in {"clSelectRecord", "clUpdateRecord", "clCommit"}
       /\ tx[c].lostReport.tabletId = tabletId
       /\ TabletFound(tabletId)

\* The lock client c waits for, as the client that holds it (none: c itself).
WaitsFor(c) ==
    {d \in Clients \ {c} :
        \/ tx[c].pc = "prUpdateRecord" /\ HoldsRecord(d, tx[c].id)
        \/ tx[c].pc = "prUpdateTablet" /\ HoldsTablet(d, tx[c].row.tabletId)
        \/ tx[c].pc = "clUpdateRecord" /\ HoldsRecord(d, tx[c].lostReport.borrowRecordId)}

\* Calls in flight; each may still append one history row.
InFlight == {c \in Clients : tx[c].pc # "idle"}

\* createBorrowRecord, run to completion while no closing call is in flight.
createBorrowRecordAlone(req) ==
    /\ InFlight = {}
    /\ createBorrowRecord(req)

\* processReturn: the borrow record and student selects, with their throws.
prSelect(c, id, returnData) ==
    /\ tx[c].pc = "idle"
    /\ Len(tabletHistory) + Cardinality(InFlight) < MaxHistory
    /\ LET out == IF id \notin DOMAIN borrowRecords
                  THEN Err("Borrow record not found", "")
                  ELSE IF AlreadyReturned(borrowRecords[id])
                  THEN Err("Tablet has already been returned", "")
                  ELSE IF ~StudentFound(borrowRecords[id].studentId)
                  THEN Err("Student not found", "")
                  ELSE Ok
       IN IF out.ok
          THEN /\ tx' = [tx EXCEPT ![c] = [pc |-> "prUpdateRecord", id |-> id,
                                           returnData |-> returnData,
                                           row |-> borrowRecords[id]]]
               /\ UNCHANGED last
          ELSE /\ last' = Last("processReturn", id, out)
               /\ UNCHANGED tx
    /\ UNCHANGED <<tablets, students, borrowRecords, lostReports, tabletHistory, serial, now>>

\* tx.update(borrowRecords).set({...}).where(eq(borrowRecords.id, id)): throws
\* on an Invalid Date, else takes the row's lock.
prUpdateRecord(c) ==
    /\ tx[c].pc = "prUpdateRecord"
    /\ WaitsFor(c) = {}
    /\ IF ToDate(tx[c].returnData.returnDate) = InvalidTime
       THEN /\ last' = Last("processReturn", tx[c].id, Err("Invalid time value", ""))
            /\ tx' = [tx EXCEPT ![c] = IdleTx]
       ELSE /\ tx' = [tx EXCEPT ![c].pc = "prUpdateTablet"]
            /\ UNCHANGED last
    /\ UNCHANGED <<tablets, students, borrowRecords, lostReports, tabletHistory, serial, now>>

\* tx.update(tablets).set({condition}).where(eq(tablets.id, borrowRecord.tabletId))
prUpdateTablet(c) ==
    /\ tx[c].pc = "prUpdateTablet"
    /\ WaitsFor(c) = {}
    /\ tx' = [tx EXCEPT ![c].pc = "prCommit"]
    /\ UNCHANGED <<tablets, students, borrowRecords, lostReports, tabletHistory, serial, now, last>>

\* tx.insert(tabletHistory) of the 'returned' row, return, commit: the
\* updates apply to the rows as committed when their locks were taken.
prCommit(c) ==
    /\ tx[c].pc = "prCommit"
    /\ borrowRecords' = [borrowRecords EXCEPT ![tx[c].id] = ReturnUpdate(@, tx[c].returnData)]
    /\ tablets' = SetCondition(tablets, tx[c].row.tabletId, tx[c].returnData.returnCondition)
    /\ tabletHistory' = Append(tabletHistory,
                                ReturnedEvent(tx[c].row, tx[c].id, tx[c].returnData))
    /\ last' = Last("processReturn", tx[c].id, Ok)
    /\ tx' = [tx EXCEPT ![c] = IdleTx]
    /\ UNCHANGED <<students, lostReports, serial, now>>

\* createLostReport: tx.update(tablets).set({status: 'Lost'}), which takes
\* the tablet's lock when the tablet exists.
clMarkLost(c, lostReport) ==
    /\ tx[c].pc = "idle"
    /\ Len(tabletHistory) + Cardinality(InFlight) < MaxHistory
    /\ Len(lostReports) + Cardinality(InFlight) < MaxLostReports
    /\ \A d \in Clients \ {c} : ~HoldsTablet(d, lostReport.tabletId)
    /\ tx' = [tx EXCEPT ![c] = [pc |-> "clSelectRecord", lostReport |-> lostReport,
                                closing |-> FALSE]]
    /\ UNCHANGED <<tablets, students, borrowRecords, lostReports, tabletHistory, serial, now, last>>

\* if (lostReport.borrowRecordId) { select; if (borrowRecord && !borrowRecord.isReturned) ...
clSelectRecord(c) ==
    /\ tx[c].pc = "clSelectRecord"
    /\ IF /\ tx[c].lostReport.borrowRecordId # NULLID
          /\ Closable(borrowRecords, tx[c].lostReport.borrowRecordId)
       THEN tx' = [tx EXCEPT ![c].pc = "clUpdateRecord"]
       ELSE tx' = [tx EXCEPT ![c].pc = "clCommit"]
    /\ UNCHANGED <<tablets, students, borrowRecords, lostReports, tabletHistory, serial, now, last>>

\* tx.update(borrowRecords).set({isReturned: true, ...}).where(eq(borrowRecords.id, ...))
clUpdateRecord(c) ==
    /\ tx[c].pc = "clUpdateRecord"
    /\ WaitsFor(c) = {}
    /\ tx' = [tx EXCEPT ![c].pc = "clCommit", ![c].closing = TRUE]
    /\ UNCHANGED <<tablets, students, borrowRecords, lostReports, tabletHistory, serial, now, last>>

\* The lost_reports insert (with its foreign keys), the 'lost' history
\* insert, return, commit; a failed insert rolls everything back.
clCommit(c) ==
    /\ tx[c].pc = "clCommit"
    /\ LET lostReport == tx[c].lostReport
           out == LostReportOutcome(lostReport)
       IN /\ IF out.ok
             THEN /\ tablets' = MarkLost(tablets, lostReport.tabletId)
                  /\ borrowRecords' =
                       IF tx[c].closing
                       THEN [borrowRecords EXCEPT ![lostReport.borrowRecordId] =
                                                     LostUpdate(@, lostReport)]
                       ELSE borrowRecords
                  /\ lostReports' = Append(lostReports, NewLostReport(lostReport))
                  /\ tabletHistory' = Append(tabletHistory, LostEvent(lostReport))
             ELSE UNCHANGED <<tablets, borrowRecords, lostReports, tabletHistory>>
          /\ last' = Last("createLostReport", lostReport.borrowRecordId, out)
    /\ tx' = [tx EXCEPT ![c] = IdleTx]
    /\ UNCHANGED <<students, serial, now>>

\* Two transactions each wait for a lock the other holds: the store aborts
\* one of them, which rolls back.
txDeadlock(c) ==
    /\ \E d \in WaitsFor(c) : c \in WaitsFor(d)
    /\ last' = Last(IF tx[c].pc = "clUpdateRecord" THEN "createLostReport" ELSE "processReturn",
                     IF tx[c].pc = "clUpdateRecord"
                     THEN tx[c].lostReport.borrowRecordId ELSE tx[c].id,
                     Err("deadlock detected", ""))
    /\ tx' = [tx EXCEPT ![c] = IdleTx]
    /\ UNCHANGED <<tablets, students, borrowRecords, lostReports, tabletHistory, serial, now>>

NextClose ==
    \/ createStudent
    \/ \E tablet \in InsertTablet : createTablet(tablet.status, tablet.condition)
    \/ \E req \in WellFormedRequests : createBorrowRecordAlone(req)
    \/ \E c \in Clients, id \in BorrowRecordIds, returnData \in CloseReturnData :
          prSelect(c, id, returnData)
    \/ \E c \in Clients : prUpdateRecord(c)
    \/ \E c \in Clients : prUpdateTablet(c)
    \/ \E c \in Clients : prCommit(c)
    \/ \E c \in Clients, lostReport \in CloseLostReports : clMarkLost(c, lostReport)
    \/ \E c \in Clients : clSelectRecord(c)
    \/ \E c \in Clients : clUpdateRecord(c)
    \/ \E c \in Clients : clCommit(c)
    \/ \E c \in Clients : txDeadlock(c)

SpecClose == Init /\ [][NextClose]_vars

\* -------------------------------------------------------------- SpecDelete
\* deleteTablet and deleteStudent statement by statement (neither opens a
\* transaction: the count select and the delete are two autocommitted
\* statements), next to createTablet (the tablet insert and the history
\* insert, autocommitted too) and to the transaction of createBorrowRecord.
\* No foreign key of the schema has an ON DELETE action, so the delete of a
\* row that a committed row references fails; the delete of a row that an
\* open transaction has key-share locked (by inserting a reference to it)
\* waits until that transaction ends.

\* The tablets of this scenario are created Serviceable.
LendableTablets == {tablet \in InsertTablet : tablet.status = "Serviceable"}

\* The loss reports of this scenario name no borrow record.
DeleteLostReports ==
    {lostReport \in CloseLostReports : lostReport.borrowRecordId = NULLID}

\* The foreign keys on students.id of borrow_records, lost_reports and
\* tablet_history.
StudentReferencedNowhere(id) == FALSE
StudentReferenced(id) ==
    \/ \E b \in DOMAIN borrowRecords : borrowRecords[b].studentId = id
    \/ \E i \in 1..Len(lostReports) : lostReports[i].studentId = id
    \/ \E i \in 1..Len(tabletHistory) : tabletHistory[i].studentId = id

\* The key-share locks an open createBorrowRecord transaction holds once its
\* borrow record is inserted.
KeySharesTablet(c, tabletId) ==
    tx[c].pc \in {"insertHistory", "commit"} /\ tx[c].tabletId = tabletId
KeySharesStudent(c, studentId) ==
    tx[c].pc \in {"insertHistory", "commit"} /\ tx[c].studentId = studentId

\* createTablet: db.insert(tablets).values(tablet).returning()
ctInsert(c, tablet) ==
    /\ tx[c].pc = "idle"
    /\ serial.tablets < MaxTablets
    /\ LET id == serial.tablets + 1 IN
        /\ tablets' = Put(tablets, id, [status |-> tablet.status,
                                        condition |-> tablet.condition])
        /\ serial' = [serial EXCEPT !.tablets = id]
        /\ tx' = [tx EXCEPT ![c] = [IdleTx EXCEPT !.pc = "ctHistory", !.tabletId = id,
                                                  !.condition = tablet.condition]]
    /\ UNCHANGED <<students, borrowRecords, lostReports, tabletHistory, now, last>>

\* createTablet: db.insert(tabletHistory).values({... eventType: 'created' ...})
\* The insert throws when the tablet has been deleted meanwhile.
ctHistory(c) ==
    /\ tx[c].pc = "ctHistory"
    /\ \E t \in now..MaxDate :
        /\ now' = t
        /\ IF TabletFound(tx[c].tabletId)
           THEN /\ Len(tabletHistory) < MaxHistory
                /\ tabletHistory' =
                     Append(tabletHistory, CreatedEvent(tx[c].tabletId, t, tx[c].condition))
                /\ last' = Last("createTablet", tx[c].tabletId, Ok)
           ELSE /\ last' = Last("createTablet", tx[c].tabletId,
                                Err("violates foreign key constraint", ""))
                /\ UNCHANGED tabletHistory
    /\ tx' = [tx EXCEPT ![c] = IdleTx]
    /\ UNCHANGED <<tablets, students, borrowRecords, lostReports, serial>>

\* deleteTablet: the count select and `return false`.
dtSelect(c, id) ==
    /\ tx[c].pc = "idle"
    /\ IF HasBorrowings(id)
       THEN /\ last' = Last("deleteTablet", id,
                            Err("Cannot delete tablet with borrowing records", ""))
            /\ UNCHANGED tx
       ELSE /\ tx' = [tx EXCEPT ![c] = [IdleTx EXCEPT !.pc = "dtDelete", !.tabletId = id]]
            /\ UNCHANGED last
    /\ UNCHANGED <<tablets, students, borrowRecords, lostReports, tabletHistory, serial, now>>

\* deleteTablet: db.delete(tablets).where(eq(tablets.id, id)); return true
dtDelete(c) ==
    LET id == tx[c].tabletId IN
    /\ tx[c].pc = "dtDelete"
    /\ \A d \in Sessions \ {c} : ~KeySharesTablet(d, id)
    /\ IF HasBorrowings(id) \/ TabletReferenced(id)
       THEN /\ last' = Last("deleteTablet", id, Err("violates foreign key constraint", ""))
            /\ UNCHANGED tablets
       ELSE /\ last' = Last("deleteTablet", id, Ok)
            /\ tablets' = [t \in DOMAIN tablets \ {id} |-> tablets[t]]
    /\ tx' = [tx EXCEPT ![c] = IdleTx]
    /\ UNCHANGED <<students, borrowRecords, lostReports, tabletHistory, serial, now>>

\* deleteStudent: the count select and `return false`.
dsSelect(c, id) ==
    /\ tx[c].pc = "idle"
    /\ IF \E b \in DOMAIN borrowRecords : borrowRecords[b].studentId = id
       THEN /\ last' = Last("deleteStudent", id,
                            Err("Cannot delete student with active borrowing records", ""))
            /\ UNCHANGED tx
       ELSE /\ tx' = [tx EXCEPT ![c] = [IdleTx EXCEPT !.pc = "dsDelete", !.studentId = id]]
            /\ UNCHANGED last
    /\ UNCHANGED <<tablets, students, borrowRecords, lostReports, tabletHistory, serial, now>>

\* deleteStudent: db.delete(students).where(eq(students.id, id)); return true
dsDelete(c) ==
    LET id == tx[c].studentId IN
    /\ tx[c].pc = "dsDelete"
    /\ \A d \in Sessions \ {c} : ~KeySharesStudent(d, id)
    /\ IF StudentReferenced(id)
       THEN /\ last' = Last("deleteStudent", id, Err("violates foreign key constraint", ""))
            /\ UNCHANGED students
       ELSE /\ last' = Last("deleteStudent", id, Ok)
            /\ students' = students \ {id}
    /\ tx' = [tx EXCEPT ![c] = IdleTx]
    /\ UNCHANGED <<tablets, borrowRecords, lostReports, tabletHistory, serial, now>>

\* One call of each kind is in flight at a time: session 1 creates tablets,
\* session 2 lends, session 3 deletes; returns and loss reports run to
\* completion in between.
NextDelete ==
    \/ createStudent
    \/ \E tablet \in LendableTablets : ctInsert(1, tablet)
    \/ ctHistory(1)
    \/ \E req \in WellFormedRequests : cbrBegin(2, req)
    \/ cbrSelectActive(2)
    \/ cbrSelectTablet(2)
    \/ cbrInsertRecord(2)
    \/ cbrInsertHistory(2)
    \/ cbrCommit(2)
    \/ \E id \in BorrowRecordIds, returnData \in CloseReturnData :
          processReturn(id, returnData)
    \/ \E lostReport \in DeleteLostReports : createLostReport(lostReport)
    \/ \E id \in TabletIds : dtSelect(3, id)
    \/ dtDelete(3)
    \/ \E id \in RequestStudentIds : dsSelect(3, id)
    \/ dsDelete(3)

SpecDelete == Init /\ [][NextDelete]_vars

\* ======================================================================
\* Properties
\* ======================================================================

\* The open borrow records (isReturned = false) that reference tablet t.
OpenLoansOf(t) ==
    {id \in DOMAIN borrowRecords :
        borrowRecords[id].tabletId = t /\ borrowRecords[id].isReturned = FALSE}

\* The history rows that reference borrow record id, in the order written.
EventsOfLoan(history, id) ==
    SelectSeq(history, LAMBDA e : e.borrowRecordId = id)

EventTypes(events) == [i \in 1..Len(events) |-> events[i].eventType]

\* C1: under any sequence of complete createBorrowRecord, processReturn,
\* createLostReport and updateTablet calls, every tablet is referenced by at
\* most one borrow record with isReturned = false.
C1_OneOpenLoanPerDevice ==
    \A t \in TabletIds : Cardinality(OpenLoansOf(t)) <= 1

\* A tablet with a closed and an open borrow record, on which a further
\* createBorrowRecord has just been rejected.
C1_Witness ==
    /\ last.op = "createBorrowRecord"
    /\ last.out.error = "Tablet is already borrowed"
    /\ \E t \in TabletIds :
         /\ Cardinality(OpenLoansOf(t)) = 1
         /\ \E id \in DOMAIN borrowRecords :
              borrowRecords[id].tabletId = t /\ borrowRecords[id].isReturned

\* C3: a borrow record with isReturned = true stays a row with
\* isReturned = true, and its returnDate, returnCondition and returnNotes
\* keep their values, in every later step.
C3_ClosedLoanImmutable ==
    [][\A id \in DOMAIN borrowRecords :
          borrowRecords[id].isReturned =>
            /\ id \in DOMAIN borrowRecords'
            /\ borrowRecords'[id].isReturned
            /\ borrowRecords'[id].returnDate = borrowRecords[id].returnDate
            /\ borrowRecords'[id].returnCondition = borrowRecords[id].returnCondition
            /\ borrowRecords'[id].returnNotes = borrowRecords[id].returnNotes]_vars

\* A loss report that named a borrow record already closed by a return has
\* just been filed.
C3_Witness ==
    /\ last.op = "createLostReport"
    /\ last.out.ok
    /\ last.id \in DOMAIN borrowRecords
    /\ borrowRecords[last.id].isReturned
    /\ borrowRecords[last.id].returnCondition # NULL

\* C4: every processReturn that succeeds leaves the borrow record with
\* isReturned = true and with returnDate, returnCondition and returnNotes
\* equal to the values supplied (no notes supplied: none stored before).
C4_ReturnClosesLoan ==
    [][\A id \in BorrowRecordIds, returnData \in UpdateBorrowRecordForReturn :
          (processReturn(id, returnData) /\ last'.out.ok) =>
            /\ borrowRecords'[id].isReturned = TRUE
            /\ borrowRecords'[id].returnDate = ToDate(returnData.returnDate)
            /\ borrowRecords'[id].returnCondition = returnData.returnCondition
            /\ borrowRecords'[id].returnNotes =
                 IF returnData.returnNotes = UNDEFINED
                 THEN borrowRecords[id].returnNotes
                 ELSE returnData.returnNotes]_vars

\* C5: a processReturn on a borrow record that an earlier processReturn
\* already succeeded on (a 'returned' event exists for it) fails with
\* 'Tablet has already been returned', appends no history row and changes
\* no borrow record and no tablet.
C5_SecondReturnRejected ==
    [][\A id \in BorrowRecordIds, returnData \in UpdateBorrowRecordForReturn :
          (/\ processReturn(id, returnData)
           /\ \E i \in 1..Len(tabletHistory) :
                /\ tabletHistory[i].eventType = "returned"
                /\ tabletHistory[i].borrowRecordId = id) =>
            /\ last'.out.error = "Tablet has already been returned"
            /\ tabletHistory' = tabletHistory
            /\ borrowRecords' = borrowRecords
            /\ tablets' = tablets]_vars

\* C6: a successful processReturn on the borrow record that the call just
\* before it created makes the tablet available again and leaves exactly
\* two history rows for that borrow record, 'borrowed' then 'returned'.
C6_BorrowReturnRoundTrip ==
    [][\A id \in BorrowRecordIds, returnData \in UpdateBorrowRecordForReturn :
          (/\ last.op = "createBorrowRecord" /\ last.out.ok /\ last.id = id
           /\ processReturn(id, returnData)
           /\ last'.out.ok) =>
            /\ borrowRecords[id].tabletId \in getAvailableTablets'
            /\ EventTypes(EventsOfLoan(tabletHistory', id)) = <<"borrowed", "returned">>]_vars

\* Requests whose accessories the boundary validated (no string that is
\* not JSON).
WellFormedBorrows == {req \in InsertBorrowRecord : ~AccessoriesThrows(req.accessories)}

\* C7: createBorrowRecord on a Serviceable tablet that has an open borrow
\* record fails with 'Tablet is already borrowed' and writes no borrow
\* record and no history row.
C7_AlreadyBorrowedRejected ==
    [][\A req \in WellFormedBorrows :
          (/\ createBorrowRecord(req)
           /\ req.tabletId \in DOMAIN tablets
           /\ tablets[req.tabletId].status = "Serviceable"
           /\ OpenLoansOf(req.tabletId) # {}) =>
            /\ last'.out.error = "Tablet is already borrowed"
            /\ borrowRecords' = borrowRecords
            /\ tabletHistory' = tabletHistory]_vars

\* C8: createBorrowRecord by an existing student on an existing tablet
\* whose status is not Serviceable fails with 'Tablet is not serviceable:
\* <status>', whether or not the tablet has an open borrow record.
C8_NotServiceableRejected ==
    [][\A req \in WellFormedBorrows :
          (/\ createBorrowRecord(req)
           /\ req.studentId \in students
           /\ req.tabletId \in DOMAIN tablets
           /\ tablets[req.tabletId].status # "Serviceable") =>
            /\ last'.out.error = "Tablet is not serviceable: "
            /\ last'.out.detail = tablets[req.tabletId].status]_vars

\* C9: createBorrowRecord fails with 'Tablet not found' when the tablet does
\* not exist, and with 'Student ... not found' when the tablet is available
\* and the student does not exist; in both cases no row is written.
C9_NotFoundRejected ==
    [][\A req \in WellFormedBorrows :
          createBorrowRecord(req) =>
            /\ req.tabletId \notin DOMAIN tablets =>
                 /\ last'.out.error = "Tablet not found"
                 /\ UNCHANGED <<tablets, students, borrowRecords, lostReports, tabletHistory>>
            /\ (req.tabletId \in getAvailableTablets /\ req.studentId \notin students) =>
                 /\ last'.out.error = "Student not found"
                 /\ UNCHANGED <<tablets, students, borrowRecords, lostReports, tabletHistory>>]_vars

\* C10: a successful createBorrowRecord adds exactly one borrow record, open
\* and with the supplied fields, appends exactly one history row, of type
\* 'borrowed' and referencing the new record, and leaves every tablet, every
\* other borrow record, every lost report and every earlier history row as
\* they were.
C10_BorrowFrame ==
    [][(last'.op = "createBorrowRecord" /\ last'.out.ok) =>
        \A req \in InsertBorrowRecord :
          createBorrowRecord(req) =>
            LET id == last'.id IN
            /\ id \notin DOMAIN borrowRecords
            /\ DOMAIN borrowRecords' = DOMAIN borrowRecords \cup {id}
            /\ \A other \in DOMAIN borrowRecords : borrowRecords'[other] = borrowRecords[other]
            /\ borrowRecords'[id].isReturned = FALSE
            /\ borrowRecords'[id].tabletId = req.tabletId
            /\ borrowRecords'[id].studentId = req.studentId
            /\ borrowRecords'[id].condition = req.condition
            /\ borrowRecords'[id].dateBorrowed = req.dateBorrowed
            /\ Len(tabletHistory') = Len(tabletHistory) + 1
            /\ SubSeq(tabletHistory', 1, Len(tabletHistory)) = tabletHistory
            /\ tabletHistory'[Len(tabletHistory')].eventType = "borrowed"
            /\ tabletHistory'[Len(tabletHistory')].borrowRecordId = id
            /\ tabletHistory'[Len(tabletHistory')].tabletId = req.tabletId
            /\ tablets' = tablets
            /\ lostReports' = lostReports
            /\ students' = students]_vars

\* A second borrow record has just been created while an earlier one, a
\* lost report or a second tablet exists.
C10_Witness ==
    /\ last.op = "createBorrowRecord"
    /\ last.out.ok
    /\ Cardinality(DOMAIN borrowRecords) = 2
    /\ Cardinality(DOMAIN tablets) = 2

\* C11: a successful processReturn sets the condition of the tablet its
\* borrow record references to the supplied returnCondition, leaves that
\* tablet's status as it was, and leaves every other tablet as it was.
C11_ReturnSetsCondition ==
    [][(last'.op = "processReturn" /\ last'.out.ok) =>
        \A returnData \in UpdateBorrowRecordForReturn :
          processReturn(last'.id, returnData) =>
            LET t == borrowRecords[last'.id].tabletId IN
            /\ DOMAIN tablets' = DOMAIN tablets
            /\ tablets'[t].condition = returnData.returnCondition
            /\ tablets'[t].status = tablets[t].status
            /\ \A other \in DOMAIN tablets \ {t} : tablets'[other] = tablets[other]]_vars

\* A return has just changed the condition of one of two tablets, the other
\* keeping a different condition.
C11_Witness ==
    /\ last.op = "processReturn"
    /\ last.out.ok
    /\ \E t, other \in DOMAIN tablets :
         /\ t = borrowRecords[last.id].tabletId
         /\ tablets[t].condition = "Fair"
         /\ tablets[other].condition = "Good"

\* C12: a successful createLostReport sets the tablet's status to Lost,
\* leaves its condition and every other tablet as they were, inserts exactly
\* one lost report (the one supplied) and appends exactly one history row,
\* of type 'lost', for that tablet.
C12_LossMarksTablet ==
    [][(last'.op = "createLostReport" /\ last'.out.ok) =>
        \A lostReport \in InsertLostReport :
          createLostReport(lostReport) =>
            LET t == lostReport.tabletId IN
            /\ DOMAIN tablets' = DOMAIN tablets
            /\ tablets'[t].status = "Lost"
            /\ tablets'[t].condition = tablets[t].condition
            /\ \A other \in DOMAIN tablets \ {t} : tablets'[other] = tablets[other]
            /\ lostReports' = Append(lostReports, NewLostReport(lostReport))
            /\ Len(tabletHistory') = Len(tabletHistory) + 1
            /\ SubSeq(tabletHistory', 1, Len(tabletHistory)) = tabletHistory
            /\ tabletHistory'[Len(tabletHistory')].eventType = "lost"
            /\ tabletHistory'[Len(tabletHistory')].tabletId = t]_vars

\* A loss has just been reported for a tablet whose condition an earlier
\* return or edit had changed, while a second tablet exists.
C12_Witness ==
    /\ last.op = "createLostReport"
    /\ last.out.ok
    /\ Len(lostReports) = 1
    /\ Cardinality(DOMAIN tablets) = 2
    /\ tablets[lostReports[1].tabletId].status = "Lost"
    /\ tablets[lostReports[1].tabletId].condition = "Fair"

\* C13: a successful createLostReport that names a borrow record closes it
\* when it is open (isReturned = true, returnDate = dateReported,
\* returnCondition null) and leaves its closure fields as they were when it
\* is already closed.
C13_LossClosesLoan ==
    [][(last'.op = "createLostReport" /\ last'.out.ok /\ last'.id # NULLID) =>
        \A lostReport \in InsertLostReport :
          createLostReport(lostReport) =>
            LET id == lostReport.borrowRecordId IN
            IF borrowRecords[id].isReturned
            THEN /\ borrowRecords'[id].isReturned
                 /\ borrowRecords'[id].returnDate = borrowRecords[id].returnDate
                 /\ borrowRecords'[id].returnCondition = borrowRecords[id].returnCondition
                 /\ borrowRecords'[id].returnNotes = borrowRecords[id].returnNotes
            ELSE /\ borrowRecords'[id].isReturned
                 /\ borrowRecords'[id].returnDate = lostReport.dateReported
                 /\ borrowRecords'[id].returnCondition = NULL]_vars

\* C14: a tablet for which a loss has been reported (a lost report names it
\* and its status is Lost) keeps the status Lost in every later step, and
\* is never among the available tablets again.
C14_LostIsTerminal ==
    [][\A i \in 1..Len(lostReports) :
          LET t == lostReports[i].tabletId IN
          tablets[t].status = "Lost" =>
            /\ t \in DOMAIN tablets'
            /\ tablets'[t].status = "Lost"
            /\ t \notin getAvailableTablets']_vars

\* The rows appended to the history by the step, in order.
Appended == SubSeq(tabletHistory', Len(tabletHistory) + 1, Len(tabletHistory'))

\* C15: updateTablet of an existing tablet appends one 'status_change' row
\* iff a status is supplied and differs from the stored one, and one
\* 'condition_change' row iff a condition is supplied and differs from the
\* stored one; it appends nothing else, so an edit whose values equal the
\* stored ones appends no row.
C15_EditEvents ==
    [][(last'.op = "updateTablet" /\ last'.out.ok) =>
        \A patch \in TabletPatch :
          (/\ tablets'[last'.id] = PatchTablet(tablets[last'.id], patch)
           /\ updateTablet(last'.id, patch)) =>
            LET old == tablets[last'.id]
                statusDiffers == patch.status # UNDEFINED /\ patch.status # old.status
                conditionDiffers == patch.condition # UNDEFINED /\ patch.condition # old.condition
                types == EventTypes(Appended)
            IN  /\ SubSeq(tabletHistory', 1, Len(tabletHistory)) = tabletHistory
                /\ types = (IF statusDiffers THEN <<"status_change">> ELSE <<>>)
                              \o (IF conditionDiffers THEN <<"condition_change">> ELSE <<>>)
                /\ \A i \in 1..Len(Appended) : Appended[i].tabletId = last'.id]_vars

\* An edit has just completed on an Unserviceable tablet in Fair condition
\* whose history holds, after its 'created' row, one 'status_change' and one
\* 'condition_change' row.
C15_Witness ==
    /\ last.op = "updateTablet"
    /\ last.out.ok
    /\ tablets[last.id].status = "Unserviceable"
    /\ tablets[last.id].condition = "Fair"
    /\ EventTypes(tabletHistory) = <<"created", "status_change", "condition_change">>

\* C16: in every reachable state the tablets getAvailableTablets returns are
\* exactly those whose status is Serviceable and that no borrow record with
\* isReturned = false references.
C16_AvailabilityQuery ==
    getAvailableTablets =
        {t \in DOMAIN tablets : tablets[t].status = "Serviceable" /\ OpenLoansOf(t) = {}}

\* The query returns a tablet whose only borrow record is closed, and leaves
\* out a second tablet that is not Serviceable.
C16_Witness ==
    /\ Cardinality(DOMAIN tablets) = 2
    /\ \E t \in DOMAIN tablets :
         /\ getAvailableTablets = {t}
         /\ \E id \in DOMAIN borrowRecords :
              borrowRecords[id].tabletId = t /\ borrowRecords[id].isReturned

\* C17: a call that fails (it throws, or reports that nothing was found or
\* done) leaves every tablet, borrow record, lost report and history row
\* exactly as it was before the call; so a createLostReport that fails on a
\* missing tablet leaves the borrow record it names open.
C17_FailureChangesNothing ==
    [][~last'.out.ok =>
         UNCHANGED <<tablets, borrowRecords, lostReports, tabletHistory>>]_vars

\* A createLostReport that named an open borrrecord has just failed on a
\* missing tablet or student, after its statement closing the record: the
\* record is still open and its tablet is still Serviceable.
C17_Witness ==
    /\ last.op = "createLostReport"
    /\ ~last.out.ok
    /\ last.id \in DOMAIN borrowRecords
    /\ ~borrowRecords[last.id].isReturned
    /\ tablets[borrowRecords[last.id].tabletId].status = "Serviceable"
    /\ lostReports = <<>>

\* C18: with the statements of updateTablet calls interleaved or cut short,
\* every step that changes a tablet's status or condition also appends a
\* history row for that tablet, and every step that appends a
\* 'status_change' or 'condition_change' row changes that field of that
\* tablet.
C18_HistoryAtomicWithChange ==
    [][/\ \A t \in DOMAIN tablets :
            tablets'[t] # tablets[t] =>
              \E i \in 1..Len(Appended) : Appended[i].tabletId = t
       /\ \A i \in 1..Len(Appended) :
            LET e == Appended[i] IN
            /\ e.eventType = "status_change" =>
                 tablets'[e.tabletId].status # tablets[e.tabletId].status
            /\ e.eventType = "condition_change" =>
                 tablets'[e.tabletId].condition # tablets[e.tabletId].condition]_vars

\* The open borrow records (isReturned = false) that reference student s.
OpenLoansOfStudent(s) ==
    {id \in DOMAIN borrowRecords :
        borrowRecords[id].studentId = s /\ borrowRecords[id].isReturned = FALSE}

\* C19: in every reachable state each student is referenced by at most one
\* borrow record with isReturned = false.
C19_OneOpenLoanPerStudent ==
    \A s \in students : Cardinality(OpenLoansOfStudent(s)) <= 1

\* C20: no step modifies or removes a history row already written: the
\* history after the step is the history before it with zero or more rows
\* appended, so the number of rows of each tablet never decreases.
C20_HistoryAppendOnly ==
    [][/\ Len(tabletHistory') >= Len(tabletHistory)
       /\ SubSeq(tabletHistory', 1, Len(tabletHistory)) = tabletHistory]_vars

\* deleteTablet has just been refused by the store for a tablet that no
\* borrow record references and that has history rows, which are all still
\* there.
C20_Witness ==
    /\ last.op = "deleteTablet"
    /\ last.out.error = "violates foreign key constraint"
    /\ last.id \in DOMAIN tablets
    /\ Len(SelectSeq(tabletHistory, LAMBDA e : e.tabletId = last.id)) >= 2

\* C21: processReturn on an id that names no borrow record fails with
\* 'Borrow record not found', the return endpoint answers 404 with that
\* message, and no tablet, borrow record, lost report or history row
\* changes.
C21_ReturnOfMissingLoan ==
    [][(last'.op = "processReturn" /\ last'.id \notin DOMAIN borrowRecords) =>
         /\ last'.out.error = "Borrow record not found"
         /\ PostReturnResponse(last'.out).status = 404
         /\ PostReturnResponse(last'.out).message = "Borrow record not found"
         /\ UNCHANGED <<tablets, borrowRecords, lostReports, tabletHistory>>]_vars

\* C22: a successful createLostReport that names no borrow record leaves
\* every borrow record as it was, so a record open on the tablet stays open,
\* while the tablet's status becomes Lost.
C22_LossWithoutLoanId ==
    [][(last'.op = "createLostReport" /\ last'.out.ok /\ last'.id = NULLID) =>
        \A lostReport \in InsertLostReport :
          createLostReport(lostReport) =>
            /\ borrowRecords' = borrowRecords
            /\ tablets'[lostReport.tabletId].status = "Lost"]_vars

\* A loss naming no borrow record has just been reported for a tablet that
\* has an open borrow record: the tablet is Lost and the record still open.
C22_Witness ==
    /\ last.op = "createLostReport"
    /\ last.out.ok
    /\ last.id = NULLID
    /\ \E t \in DOMAIN tablets :
         /\ tablets[t].status = "Lost"
         /\ lostReports[Len(lostReports)].tabletId = t
         /\ OpenLoansOf(t) # {}

\* C23: createLostReport for a tablet whose status is already Lost, by an
\* existing student and naming no borrow record or an existing one,
\* succeeds: it inserts one more lost report, appends one more 'lost'
\* history row for the tablet, and the status stays Lost.
C23_RepeatedLoss ==
    [][last'.op = "createLostReport" =>
        \A lostReport \in InsertLostReport :
          (/\ TabletFound(lostReport.tabletId)
           /\ tablets[lostReport.tabletId].status = "Lost"
           /\ StudentFound(lostReport.studentId)
           /\ lostReport.borrowRecordId \in {NULLID} \cup DOMAIN borrowRecords
           /\ lostReport.borrowRecordId = last'.id
           /\ createLostReport(lostReport)) =>
            /\ last'.out.ok
            /\ Len(lostReports') = Len(lostReports) + 1
            /\ lostReports'[Len(lostReports')].tabletId = lostReport.tabletId
            /\ Len(tabletHistory') = Len(tabletHistory) + 1
            /\ tabletHistory'[Len(tabletHistory')].eventType = "lost"
            /\ tabletHistory'[Len(tabletHistory')].tabletId = lostReport.tabletId
            /\ tablets'[lostReport.tabletId].status = "Lost"]_vars

\* A second loss has just been reported for the same tablet: two lost
\* reports and two 'lost' history rows name it.
C23_Witness ==
    /\ last.op = "createLostReport"
    /\ last.out.ok
    /\ Len(lostReports) = 2
    /\ lostReports[1].tabletId = lostReports[2].tabletId
    /\ tablets[lostReports[1].tabletId].status = "Lost"
    /\ Len(SelectSeq(tabletHistory, LAMBDA e : e.eventType = "lost")) = 2

\* C24: every tablet that createTablet or bulkCreateTablets has just
\* inserted is available (status Serviceable, no open borrow record) and has
\* exactly one history row, of type 'created'.
C24_CreatedAvailable ==
    [][last'.op \in {"createTablet", "bulkCreateTablets"} =>
        \A t \in DOMAIN tablets' \ DOMAIN tablets :
          /\ tablets'[t].status = "Serviceable"
          /\ t \in getAvailableTablets'
          /\ EventTypes(SelectSeq(tabletHistory', LAMBDA e : e.tabletId = t)) = <<"created">>]_vars

\* C25: deleteTablet of a tablet that a borrow record references, open or
\* closed, is refused (the call returns false) and changes no row; and a
\* step removes a tablet only when no borrow record references it.
C25_DeleteKeepsLentTablets ==
    [][/\ last'.op = "deleteTablet" =>
            ((\E b \in DOMAIN borrowRecords : borrowRecords[b].tabletId = last'.id) =>
               /\ last'.out.error = "Cannot delete tablet with borrowing records"
               /\ UNCHANGED <<tablets, students, borrowRecords, lostReports, tabletHistory>>)
       /\ \A t \in DOMAIN tablets \ DOMAIN tablets' :
            \A b \in DOMAIN borrowRecords : borrowRecords[b].tabletId # t]_vars

\* deleteTablet has just been refused for a tablet whose only borrow record
\* is closed; the tablet and the record are still there.
C25_Witness ==
    /\ last.op = "deleteTablet"
    /\ last.out.error = "Cannot delete tablet with borrowing records"
    /\ last.id \in DOMAIN tablets
    /\ OpenLoansOf(last.id) = {}
    /\ \E b \in DOMAIN borrowRecords : borrowRecords[b].tabletId = last.id

\* C26: every result of getTabletHistory holds exactly the history rows of
\* the requested tablet, and a row appended later never comes after a row
\* appended earlier (rows carrying the same date excepted, whose order the
\* query leaves open).
C26_HistoryNewestFirst ==
    \A t \in DOMAIN tablets :
      \A r \in getTabletHistory(t) :
        /\ {r[i] : i \in DOMAIN r} = HistoryIdsOf(t)
        /\ \A i, j \in DOMAIN r :
             (i < j /\ tabletHistory[r[i]].date # tabletHistory[r[j]].date) => r[i] > r[j]

\* C27: a successful createLostReport that names an open borrow record of
\* a tablet other than the reported one leaves that record open and
\* unchanged.
C27_LossOfOtherTabletsLoan ==
    [][(last'.op = "createLostReport" /\ last'.out.ok /\ last'.id # NULLID) =>
        \A lostReport \in InsertLostReport :
          (/\ lostReport.borrowRecordId = last'.id
           /\ borrowRecords[last'.id].tabletId # lostReport.tabletId
           /\ ~borrowRecords[last'.id].isReturned
           /\ createLostReport(lostReport)) =>
            borrowRecords'[last'.id] = borrowRecords[last'.id]]_vars

\* C29: in every reachable state a borrow record has isReturned = false
\* exactly when its returnDate is null, and a record with isReturned = false
\* has returnCondition and returnNotes null.
C29_OpenIffNoClosureData ==
    \A id \in DOMAIN borrowRecords :
      /\ (borrowRecords[id].isReturned = FALSE) <=> (borrowRecords[id].returnDate = NULLDATE)
      /\ borrowRecords[id].isReturned = FALSE =>
           /\ borrowRecords[id].returnCondition = NULL
           /\ borrowRecords[id].returnNotes = NULL

\* C28: with the statements of two closing calls on the same borrow record
\* interleaved, a record that is closed is never written again, and at most
\* one 'returned' history row references any borrow record.
C28_ClosedOnce ==
    [][/\ \A id \in DOMAIN borrowRecords :
            borrowRecords[id].isReturned => borrowRecords'[id] = borrowRecords[id]
       /\ \A id \in DOMAIN borrowRecords :
            Len(SelectSeq(tabletHistory',
                          LAMBDA e : e.eventType = "returned" /\ e.borrowRecordId = id)) <= 1]_vars

\* C30: referential integrity holds in every reachable state: every borrow
\* record, lost report and history row references a tablet that exists and,
\* where it names a student, a student that exists, whatever the interleaving
\* of deleteTablet and deleteStudent with createTablet, createBorrowRecord,
\* processReturn and createLostReport.
C30_ReferentialIntegrity ==
    /\ \A b \in DOMAIN borrowRecords :
          /\ TabletFound(borrowRecords[b].tabletId)
          /\ StudentFound(borrowRecords[b].studentId)
    /\ \A i \in 1..Len(lostReports) :
          /\ TabletFound(lostReports[i].tabletId)
          /\ StudentFound(lostReports[i].studentId)
    /\ \A i \in 1..Len(tabletHistory) :
          /\ TabletFound(tabletHistory[i].tabletId)
          /\ tabletHistory[i].studentId # NULLID => StudentFound(tabletHistory[i].studentId)

\* A deleteStudent whose count select found no borrow record, overtaken by a
\* createBorrowRecord for that student: the delete statement is refused by
\* the foreign key and the loan keeps its borrower.
C30_Witness ==
    /\ last.op = "deleteStudent"
    /\ last.out.error = "violates foreign key constraint"
    /\ lostReports = <<>>
    /\ \E b \in DOMAIN borrowRecords :
          /\ borrowRecords[b].studentId = last.id
          /\ ~borrowRecords[b].isReturned

\* C2: when two createBorrowRecord calls for the same tablet run with the
\* statements of their transactions interleaved, at most one of them
\* commits an open borrow record: no tablet ever has two.
C2_RacingBorrowsOneWins ==
    \A id1, id2 \in DOMAIN borrowRecords :
        (/\ borrowRecords[id1].tabletId = borrowRecords[id2].tabletId
         /\ borrowRecords[id1].isReturned = FALSE
         /\ borrowRecords[id2].isReturned = FALSE) => id1 = id2

====
